---- MODULE Spec2Model ----
(***************************************************************************)
(* A model of the file watcher of agent-ws (src/main.go, first program of  *)
(* the file, lines 1-493): the bootstrap scan, the reconciliation loop     *)
(* (one notification, one watcher error or one tick per iteration), the    *)
(* create / write / remove handlers, the periodic sweep for deleted files, *)
(* the normalisation of the payload and the delivery with retries.         *)
(*                                                                         *)
(* Strings are sequences of one-character strings over the alphabet Char.  *)
(* Time is a count of stamped disk modifications: the k-th modification    *)
(* gives its file the modification time 2*k, and time.Now() read after k   *)
(* modifications is 2*k+1, an instant strictly after every modification    *)
(* made so far and strictly before every later one.                        *)
(***************************************************************************)
EXTENDS Integers, Sequences, FiniteSets, TLC

(***************************************************************************)
(* Bounds of the model.                                                    *)
(***************************************************************************)
\* number of stamped disk modifications (creations and writes) in a run
MaxClock == 2
\* length of the content strings the normalisation is explored on
MaxLen == 3
\* length of the paths the identity extraction is explored on
MaxPathLen == 4

(***************************************************************************)
(* Characters and strings.                                                 *)
(***************************************************************************)
DQ == "\""
BS == "\\"
NL == "\n"
SP == " "

\* the alphabet: quote, backslash, a control character that is also white
\* space, a blank, a letter, a digit and the two braces
Char == {DQ, BS, NL, SP, "n", "1", "{", "}"}

\* unicode.IsSpace restricted to Char (strings.TrimSpace); these are also
\* the characters encoding/json skips around a value
WhiteSpace == {SP, NL}

\* characters below 0x20, which a JSON string literal must escape
Control == {NL}

\* the characters that may follow a backslash in a JSON string literal,
\* other than u (which needs four hex digits)
EscapeChar == {DQ, BS, "/", "b", "f", "n", "r", "t"}

RECURSIVE SeqsUpTo(_)
SeqsUpTo(n) ==
  IF n = 0 THEN {<<>>}
  ELSE LET shorter == SeqsUpTo(n - 1)
       IN  shorter \cup {Append(s, c) : s \in {t \in shorter : Len(t) = n - 1}, c \in Char}

RECURSIVE TrimLeft(_)
TrimLeft(s) ==
  IF s # <<>> /\ Head(s) \in WhiteSpace THEN TrimLeft(Tail(s)) ELSE s

RECURSIVE TrimRight(_)
TrimRight(s) ==
  IF s # <<>> /\ s[Len(s)] \in WhiteSpace
  THEN TrimRight(SubSeq(s, 1, Len(s) - 1))
  ELSE s

TrimSpace(s) == TrimRight(TrimLeft(s))

\* strings.ReplaceAll(s, old, new) for a one-character old
RECURSIVE ReplaceAll(_, _, _)
ReplaceAll(s, old, new) ==
  IF s = <<>> THEN <<>>
  ELSE (IF Head(s) = old THEN new ELSE <<Head(s)>>) \o ReplaceAll(Tail(s), old, new)

(***************************************************************************)
(* json.Unmarshal(data, &json.RawMessage): succeeds exactly when data is   *)
(* one JSON value with optional white space around it.  Over Char the      *)
(* values that can be written are string literals, numbers made of the     *)
(* digit 1 and the empty object.                                           *)
(***************************************************************************)
RECURSIVE StringBodyOK(_, _, _)
StringBodyOK(s, i, last) ==
  IF i > last THEN TRUE
  ELSE IF s[i] = BS
       THEN i + 1 <= last /\ s[i + 1] \in EscapeChar /\ StringBodyOK(s, i + 2, last)
       ELSE s[i] # DQ /\ s[i] \notin Control /\ StringBodyOK(s, i + 1, last)

IsJSONString(s) ==
  /\ Len(s) >= 2
  /\ s[1] = DQ
  /\ s[Len(s)] = DQ
  /\ StringBodyOK(s, 2, Len(s) - 1)

IsJSONNumber(s) ==
  /\ Len(s) >= 1
  /\ \A i \in 1..Len(s) : s[i] = "1"

IsJSONObject(s) ==
  /\ Len(s) >= 2
  /\ s[1] = "{"
  /\ s[Len(s)] = "}"
  /\ \A i \in 2..(Len(s) - 1) : s[i] \in WhiteSpace

IsValidJSON(data) ==
  LET v == TrimSpace(data)
  IN  IsJSONString(v) \/ IsJSONNumber(v) \/ IsJSONObject(v)

EmptyObject == <<"{", "}">>

ensureValidData(data) ==
  IF TrimSpace(data) = <<>> THEN EmptyObject
  ELSE IF ~IsValidJSON(data)
       THEN <<DQ>> \o ReplaceAll(data, DQ, <<BS, DQ>>) \o <<DQ>>
       ELSE data

(***************************************************************************)
(* Program constants (src/main.go, const block).                           *)
(***************************************************************************)
maxRetries == 3

(***************************************************************************)
(* The watched directory.  A path is the name of an entry of the directory;*)
(* filepath.Base and filepath.Ext work on its characters.                  *)
(***************************************************************************)
FirstPath == <<"7", ".", "j">>

OtherPath == <<"8", ".", "j">>

Paths == {FirstPath, OtherPath}

\* the entry that may also be a subdirectory of the watched directory
DirPath == OtherPath

\* the contents the game server writes: a JSON value, text that is no JSON
\* and holds a quote, and a blank
Contents == { <<"1">>, <<"n", DQ>>, <<SP>> }

\* the first file holds the JSON value or the text, the other file the blank
ContentsOf(p) == IF p = FirstPath THEN { <<"1">>, <<"n", DQ>> } ELSE { <<SP>> }

Separator == {"/", BS}

RECURSIVE LastIndexIn(_, _, _)
LastIndexIn(s, i, set) ==
  IF i = 0 THEN 0
  ELSE IF s[i] \in set THEN i ELSE LastIndexIn(s, i - 1, set)

RECURSIVE StripTrailingSeparators(_)
StripTrailingSeparators(path) ==
  IF path # <<>> /\ path[Len(path)] \in Separator
  THEN StripTrailingSeparators(SubSeq(path, 1, Len(path) - 1))
  ELSE path

\* filepath.Base: the last element of the path, trailing separators removed;
\* "." for the empty path, one separator for a path of separators only
Base(path) ==
  IF path = <<>> THEN <<".">>
  ELSE LET t == StripTrailingSeparators(path)
       IN  IF t = <<>> THEN <<BS>>
           ELSE SubSeq(t, LastIndexIn(t, Len(t), Separator) + 1, Len(t))

\* filepath.Ext: the suffix beginning at the final dot of the final element
Ext(path) ==
  LET dot == LastIndexIn(path, Len(path), {"."} \cup Separator)
  IN  IF dot > 0 /\ path[dot] = "." THEN SubSeq(path, dot, Len(path)) ELSE <<>>

\* getSteamIDFromFilename without the comparison of the lengths
getSteamIDFromFilenameUnguarded(path) ==
  LET base == Base(path)
      ext  == Ext(base)
  IN  SubSeq(base, 1, Len(base) - Len(ext))

getSteamIDFromFilename(path) ==
  LET base == Base(path)
      ext  == Ext(base)
  IN  IF Len(ext) >= Len(base) THEN base
      ELSE SubSeq(base, 1, Len(base) - Len(ext))

(***************************************************************************)
(* State.                                                                  *)
(***************************************************************************)
VARIABLES
  disk,        \* the directory: per path, absent or a file with mtime and content
  clock,       \* number of stamped disk modifications so far
  fileStates,  \* map[string]time.Time of main: path -> recorded time
  fileCache,   \* map[string]string: path -> cached content
  pc,          \* where the single thread of main is
  cont,        \* the handler that called sendEventWithRetry
  filename,    \* the path the running (or last) handler works on
  todo,        \* checkForDeletedFiles: keys the range loop has not produced yet
  eventData,   \* the EventData being (or last) delivered
  attempt,     \* loop variable of sendEventWithRetry
  responses,   \* Success and IsHTML of each attempt of this delivery, in order
  apiResponse, \* the ApiResponse of the attempt that ended the delivery
  sleeps,      \* the attempts after which time.Sleep(retryDelay) ran
  result,      \* how sendEventWithRetry returned
  seen,        \* the modification time the file had when the handler read it
  lastAct,     \* the branch the last step of the loop took ("env": none since)
  norm,        \* a pure function explored on its own (NormSpec, ClassSpec, NameSpec)
  closed       \* watcher.Events or watcher.Errors has been closed

vars == <<disk, clock, fileStates, fileCache, pc, cont, filename, todo,
          eventData, attempt, responses, apiResponse, sleeps, result, seen,
          lastAct, norm, closed>>

\* what describes the handler running, or the one that ended in the last step
callVars == <<cont, filename, eventData, attempt, responses, apiResponse, sleeps,
              result, seen>>

Absent == [kind |-> "absent", mtime |-> 0, content |-> <<>>]

File(mtime, content) == [kind |-> "file", mtime |-> mtime, content |-> content]

Dir == [kind |-> "dir", mtime |-> 0, content |-> <<>>]

\* the name of a subdirectory that was removed: nothing is there any more,
\* as for Absent, and what was there was a directory
RemovedDir == [kind |-> "removed_dir", mtime |-> 0, content |-> <<>>]

NoPath == <<>>

NoResponse ==
  [StatusCode |-> 0, Body |-> "", Success |-> FALSE, IsHTML |-> FALSE, Error |-> "none"]

NoEvent == [SteamID64 |-> <<>>, Type |-> "", Event |-> "", Data |-> <<>>]

NormIdle == [stage |-> "off", data |-> <<>>, once |-> <<>>, twice |-> <<>>]

\* Go maps as functions with a varying domain
MapPut(m, k, v) == [x \in DOMAIN m \cup {k} |-> IF x = k THEN v ELSE m[x]]

MapDelete(m, k) == [x \in DOMAIN m \ {k} |-> m[x]]

EmptyMap == [x \in {} |-> 0]

(***************************************************************************)
(* The operating system as the program sees it.                            *)
(***************************************************************************)
\* os.Stat(p) succeeds
StatOK(p) == disk[p].kind \in {"file", "dir"}

\* info.IsDir() of a successful os.Stat
IsDir(p) == disk[p].kind = "dir"

\* info.ModTime() of a successful os.Stat
ModTime(p) == disk[p].mtime

\* time.Now(): after every modification made so far, before every later one
TimeNow == 2 * clock + 1

\* the time a modification made now stamps on the file
StampOf(c) == 2 * c

(***************************************************************************)
(* Event Delivery: sendEvent and sendEventWithRetry.                       *)
(***************************************************************************)
\* what httpClient.Do and reading the body can give: a transport error, or a
\* status with a body that holds one of the markers of line 415-418 or not
RawResponses ==
  {[err |-> TRUE, status |-> 0, marker |-> FALSE]}
    \cup [err : {FALSE}, status : {200, 500}, marker : BOOLEAN]

\* the text fragments a response body is told apart by; a body is modelled
\* as the set of the fragments that occur in it
Markers == {"<!DOCTYPE html>", "<html", "Steam", "Sign In"}

Fragments == Markers \cup {"ok"}

\* isHTML looking for the two document markers only
isHTMLDocumentOnly(body) == body \cap {"<!DOCTYPE html>", "<html"} # {}

\* sendEvent, line 415-418
isHTML(body) == body \cap Markers # {}

\* what httpClient.Do and io.ReadAll gave, as sendEvent tells it apart
Received(err, status, body) ==
  IF err THEN [err |-> TRUE, status |-> 0, marker |-> FALSE]
  ELSE [err |-> FALSE, status |-> status, marker |-> isHTML(body)]

\* the ApiResponse sendEvent returns
sendEvent(raw) ==
  IF raw.err
  THEN [StatusCode |-> 0, Body |-> "", Success |-> FALSE, IsHTML |-> FALSE,
        Error |-> "transport"]
  ELSE [StatusCode |-> raw.status,
        Body       |-> IF raw.marker THEN "html" ELSE "json",
        Success    |-> raw.status >= 200 /\ raw.status < 300 /\ ~raw.marker,
        IsHTML     |-> raw.marker,
        Error      |-> IF raw.marker THEN "html" ELSE ""]

\* RetryDecision with the loop bound off by one
RetryDecisionOffByOne(r, n) ==
  IF r.Success THEN "sent"
  ELSE IF r.IsHTML THEN "html_abort"
  ELSE IF n < maxRetries - 1 THEN "retry"
  ELSE "exhausted"

\* RetryDecision without the check of IsHTML
RetryDecisionNoHTMLCheck(r, n) ==
  IF r.Success THEN "sent"
  ELSE IF n < maxRetries THEN "retry"
  ELSE "exhausted"

\* RetryDecision that gives up after the first failure
RetryDecisionNoRetry(r, n) ==
  IF r.Success THEN "sent"
  ELSE IF r.IsHTML THEN "html_abort"
  ELSE "exhausted"

\* RetryDecision without the loop bound
RetryDecisionUnbounded(r, n) ==
  IF r.Success THEN "sent"
  ELSE IF r.IsHTML THEN "html_abort"
  ELSE "retry"

\* one iteration of the loop of sendEventWithRetry, after sendEvent returned
RetryDecision(r, n) ==
  IF r.Success THEN "sent"
  ELSE IF r.IsHTML THEN "html_abort"
  ELSE IF n < maxRetries THEN "retry"
  ELSE "exhausted"

\* NewEventData that names every event add-dino-data
NewEventDataAdded(steamID, event, content) ==
  [SteamID64 |-> steamID, Type |-> "player", Event |-> "add-dino-data",
   Data |-> ensureValidData(content)]

NewEventData(steamID, event, content) ==
  [SteamID64 |-> steamID, Type |-> "player", Event |-> event,
   Data |-> ensureValidData(content)]

\* the handler builds the event and calls sendEventWithRetry
StartSend(ed, handler, p) ==
  /\ eventData' = ed
  /\ filename' = p
  /\ cont' = handler
  /\ attempt' = 1
  /\ responses' = <<>>
  /\ apiResponse' = NoResponse
  /\ sleeps' = <<>>
  /\ result' = "pending"
  /\ seen' = ModTime(p)
  /\ pc' = "send"

\* the handler returns without calling sendEventWithRetry
NoSend(p) ==
  /\ eventData' = NoEvent
  /\ filename' = p
  /\ cont' = "none"
  /\ attempt' = 0
  /\ responses' = <<>>
  /\ apiResponse' = NoResponse
  /\ sleeps' = <<>>
  /\ result' = "none"
  /\ seen' = 0

(***************************************************************************)
(* Content Cache and the modification-time table.                          *)
(***************************************************************************)
\* getCachedContent as a stub that caches nothing
getCachedContentStub(p) == <<>>

getCachedContent(p) ==
  IF p \in DOMAIN fileCache THEN fileCache[p] ELSE <<>>

\* WriteUnchanged with Before in place of Equal
WriteUnchangedBefore(p) ==
  /\ p \in DOMAIN fileStates
  /\ ModTime(p) < fileStates[p]

\* handleFileWrite, line 225-230: the stat succeeded and the file's
\* modification time equals the recorded one
WriteUnchanged(p) ==
  /\ p \in DOMAIN fileStates
  /\ ModTime(p) = fileStates[p]

\* RecordCreate left out
RecordCreateSkipped(fs, p) == fs

\* handleFileCreate, line 220
RecordCreate(fs, p) == MapPut(fs, p, TimeNow)

\* RecordWrite with the time the handler saw before it read the file
RecordWriteSeen(fs, p) == MapPut(fs, p, seen)

\* handleFileWrite, line 256-258
RecordWrite(fs, p) == IF StatOK(p) THEN MapPut(fs, p, ModTime(p)) ELSE fs

\* PurgeCache forgotten: only the modification-time entry is deleted
PurgeCacheForgotten(fc, p) == fc

\* handleFileRemove, line 276 and 277
PurgeCache(fc, p) == MapDelete(fc, p)

\* PurgeStates forgotten: only the cache entry is deleted
PurgeStatesForgotten(fs, p) == fs

PurgeStates(fs, p) == MapDelete(fs, p)

\* os.ReadFile(p): fails when the file is gone or is a directory, may fail
\* when it is there (the game server holds it open)
ReadOutcomes(p) == IF StatOK(p) /\ ~IsDir(p) THEN BOOLEAN ELSE {FALSE}

(***************************************************************************)
(* Initial state: main has built the watcher and the empty maps; the       *)
(* directory holds any files, written before the program started.          *)
(***************************************************************************)
LoopInit ==
  /\ clock = 0
  /\ fileStates = EmptyMap
  /\ fileCache = EmptyMap
  /\ pc = "boot"
  /\ cont = "none"
  /\ filename = NoPath
  /\ todo = {}
  /\ eventData = NoEvent
  /\ attempt = 0
  /\ responses = <<>>
  /\ apiResponse = NoResponse
  /\ sleeps = <<>>
  /\ result = "none"
  /\ seen = 0
  /\ lastAct = "init"
  /\ closed = FALSE

Init ==
  /\ disk \in [Paths -> {Absent, Dir} \cup {File(0, c) : c \in Contents}]
  /\ \A p \in Paths : disk[p].kind = "dir" => p = DirPath
  /\ \A p \in Paths : disk[p].kind = "file" => disk[p].content \in ContentsOf(p)
  /\ LoopInit
  /\ norm = NormIdle

(***************************************************************************)
(* The game server and the operator, acting on the directory.              *)
(***************************************************************************)
Running == pc \notin {"boot", "stopped"}

\* a step of the environment.  While a delivery is in progress it leaves the
\* handler as it is; otherwise the handler that ended in the step before is
\* no longer the last thing that happened
EnvStep ==
  /\ IF pc = "send"
     THEN UNCHANGED <<callVars, lastAct>>
     ELSE NoSend(NoPath) /\ lastAct' = "env"
  /\ UNCHANGED <<fileStates, fileCache, pc, todo, norm, closed>>

DiskCreate(p, c) ==
  /\ Running
  /\ ~StatOK(p)
  /\ clock < MaxClock
  /\ clock' = clock + 1
  /\ disk' = [disk EXCEPT ![p] = File(StampOf(clock + 1), c)]
  /\ EnvStep

DiskWrite(p, c) ==
  /\ Running
  /\ disk[p].kind = "file"
  /\ clock < MaxClock
  /\ clock' = clock + 1
  /\ disk' = [disk EXCEPT ![p] = File(StampOf(clock + 1), c)]
  /\ EnvStep

DiskRemove(p) ==
  /\ Running
  /\ disk[p].kind = "file"
  /\ disk' = [disk EXCEPT ![p] = Absent]
  /\ EnvStep
  /\ UNCHANGED clock

\* the subdirectory is removed (with what it holds)
DiskRemoveDir ==
  /\ Running
  /\ disk[DirPath].kind = "dir"
  /\ disk' = [disk EXCEPT ![DirPath] = RemovedDir]
  /\ EnvStep
  /\ UNCHANGED clock

(***************************************************************************)
(* Bootstrap Scanner: initFileStates.  os.ReadDir may fail; then the       *)
(* function returns with nothing tracked.                                  *)
(***************************************************************************)
\* Listed without the test of file.IsDir()
ListedWithDirectories == {q \in Paths : StatOK(q)}

\* the entries of the listing that are no directories
Listed == {q \in Paths : StatOK(q) /\ ~IsDir(q)}

InitFileStates ==
  /\ pc = "boot"
  /\ \E readDirOK \in BOOLEAN :
       IF ~readDirOK
       THEN /\ lastAct' = "boot_failed"
            /\ UNCHANGED <<fileStates, fileCache>>
       ELSE \E unreadable \in SUBSET Listed :
              /\ fileStates' = [p \in Listed |-> ModTime(p)]
              /\ fileCache' = [p \in Listed \ unreadable |-> disk[p].content]
              /\ lastAct' = "boot"
  /\ pc' = "select"
  /\ NoSend(NoPath)
  /\ UNCHANGED <<disk, clock, todo, norm, closed>>

(***************************************************************************)
(* Reconciliation Loop: the handlers.                                      *)
(***************************************************************************)
Ops == {"Create", "Write", "Remove", "Rename", "Chmod"}

\* event.Op is a bit mask: the single operations and some combinations
OpMasks ==
  {{op} : op \in Ops}
    \cup {{"Create", "Write"}, {"Write", "Remove"}, {"Remove", "Rename"}, {"Create", "Remove"}}

handleFileCreate(p, steamID) ==
  \E readOK \in ReadOutcomes(p) :
    IF ~readOK
    THEN /\ NoSend(p)
         /\ pc' = "select"
         /\ lastAct' = "create_readerr"
         /\ UNCHANGED <<fileStates, fileCache>>
    ELSE /\ fileCache' = MapPut(fileCache, p, disk[p].content)
         /\ StartSend(NewEventData(steamID, "add-dino-data", disk[p].content), "create", p)
         /\ lastAct' = "create_begin"
         /\ UNCHANGED fileStates

handleFileWrite(p, steamID) ==
  IF ~StatOK(p)
  THEN /\ NoSend(p)
       /\ pc' = "select"
       /\ lastAct' = "write_staterr"
       /\ UNCHANGED <<fileStates, fileCache>>
  ELSE IF WriteUnchanged(p)
  THEN /\ NoSend(p)
       /\ pc' = "select"
       /\ lastAct' = "write_unchanged"
       /\ UNCHANGED <<fileStates, fileCache>>
  ELSE \E readOK \in ReadOutcomes(p) :
         IF ~readOK
         THEN /\ NoSend(p)
              /\ pc' = "select"
              /\ lastAct' = "write_readerr"
              /\ UNCHANGED <<fileStates, fileCache>>
         ELSE /\ fileCache' = MapPut(fileCache, p, disk[p].content)
              /\ StartSend(NewEventData(steamID, "change-dino-data", disk[p].content),
                           "write", p)
              /\ lastAct' = "write_begin"
              /\ UNCHANGED fileStates

handleFileRemove(p, steamID, caller) ==
  /\ StartSend(NewEventData(steamID, "delete-dino-data", getCachedContent(p)), caller, p)
  /\ lastAct' = "remove_begin"
  /\ UNCHANGED <<fileStates, fileCache>>

\* Dispatch with the cases of Create and Write exchanged
DispatchWriteFirst(op) ==
  IF "Write" \in op THEN "write"
  ELSE IF "Create" \in op THEN "create"
  ELSE IF "Remove" \in op THEN "remove"
  ELSE "none"

\* the switch of handleFileEvent: the first case that matches
Dispatch(op) ==
  IF "Create" \in op THEN "create"
  ELSE IF "Write" \in op THEN "write"
  ELSE IF "Remove" \in op THEN "remove"
  ELSE "none"

HandleFileEvent(p, op) ==
  /\ pc = "select"
  /\ LET steamID == getSteamIDFromFilename(p)
     IN  IF (StatOK(p) /\ IsDir(p)) \/ steamID = <<>> \/ Dispatch(op) = "none"
         THEN /\ NoSend(p)
              /\ pc' = "select"
              /\ lastAct' = "ignored"
              /\ UNCHANGED <<fileStates, fileCache>>
         ELSE CASE Dispatch(op) = "create" -> handleFileCreate(p, steamID)
                [] Dispatch(op) = "write"  -> handleFileWrite(p, steamID)
                [] Dispatch(op) = "remove" -> handleFileRemove(p, steamID, "remove")
  /\ UNCHANGED <<disk, clock, todo, norm, closed>>

\* case err, ok := <-watcher.Errors with ok: the error is logged
WatcherError ==
  /\ pc = "select"
  /\ NoSend(NoPath)
  /\ pc' = "select"
  /\ lastAct' = "watcher_error"
  /\ UNCHANGED <<disk, clock, fileStates, fileCache, todo, norm, closed>>

\* the test of ok with the return left out
LoopReturnsNever(ok) == FALSE

\* if !ok { return }, line 102-104 and 108-110
LoopReturns(ok) == ~ok

\* a channel is closed and the select takes its case at once: main returns
ChannelClosed ==
  /\ pc = "select"
  /\ LoopReturns(FALSE)
  /\ closed' = TRUE
  /\ NoSend(NoPath)
  /\ pc' = "stopped"
  /\ lastAct' = "closed"
  /\ UNCHANGED <<disk, clock, fileStates, fileCache, todo, norm>>

\* the watcher is closed, whatever the loop is doing
Close ==
  /\ Running
  /\ ~closed
  /\ closed' = TRUE
  /\ UNCHANGED <<disk, clock, fileStates, fileCache, pc, todo, callVars, lastAct, norm>>

\* the select takes the case of the closed channel: main returns
Return ==
  /\ pc = "select"
  /\ closed
  /\ LoopReturns(~closed)
  /\ NoSend(NoPath)
  /\ pc' = "stopped"
  /\ lastAct' = "closed"
  /\ UNCHANGED <<disk, clock, fileStates, fileCache, todo, norm, closed>>

(***************************************************************************)
(* Periodic sweep: checkForDeletedFiles.  The range loop produces each key *)
(* of fileStates once, in any order; the only key deleted during the loop  *)
(* is the one just produced.                                               *)
(***************************************************************************)
Tick ==
  /\ pc = "select"
  /\ todo' = DOMAIN fileStates
  /\ pc' = IF DOMAIN fileStates = {} THEN "select" ELSE "sweep"
  /\ NoSend(NoPath)
  /\ lastAct' = "tick"
  /\ UNCHANGED <<disk, clock, fileStates, fileCache, norm, closed>>

SweepStep ==
  /\ pc = "sweep"
  /\ \E p \in todo :
       /\ todo' = todo \ {p}
       /\ IF ~StatOK(p) /\ getSteamIDFromFilename(p) # <<>>
          THEN handleFileRemove(p, getSteamIDFromFilename(p), "sweep")
          ELSE /\ NoSend(p)
               /\ pc' = IF todo \ {p} = {} THEN "select" ELSE "sweep"
               /\ lastAct' = "sweep_skip"
               /\ UNCHANGED <<fileStates, fileCache>>
  /\ UNCHANGED <<disk, clock, norm, closed>>

(***************************************************************************)
(* One attempt of sendEventWithRetry; when the loop ends, the calling      *)
(* handler runs to its end in the same step.                               *)
(***************************************************************************)
SendAttempt ==
  /\ pc = "send"
  /\ \E raw \in RawResponses :
       LET r        == sendEvent(raw)
           decision == RetryDecision(r, attempt)
       IN  /\ responses' = Append(responses, [Success |-> r.Success, IsHTML |-> r.IsHTML])
           /\ IF decision = "retry"
              THEN /\ sleeps' = Append(sleeps, attempt)
                   /\ attempt' = attempt + 1
                   /\ UNCHANGED <<apiResponse, result, pc, fileStates, fileCache, lastAct>>
              ELSE /\ result' = decision
                   /\ apiResponse' = r
                   /\ lastAct' = cont
                   /\ UNCHANGED <<sleeps, attempt>>
                   /\ CASE cont = "create" ->
                             /\ fileStates' = RecordCreate(fileStates, filename)
                             /\ pc' = "select"
                             /\ UNCHANGED fileCache
                        [] cont = "write" ->
                             /\ fileStates' = RecordWrite(fileStates, filename)
                             /\ pc' = "select"
                             /\ UNCHANGED fileCache
                        [] cont = "remove" ->
                             /\ fileCache' = PurgeCache(fileCache, filename)
                             /\ fileStates' = PurgeStates(fileStates, filename)
                             /\ pc' = "select"
                        [] cont = "sweep" ->
                             /\ fileCache' = PurgeCache(fileCache, filename)
                             /\ fileStates' = PurgeStates(fileStates, filename)
                             /\ pc' = IF todo = {} THEN "select" ELSE "sweep"
  /\ UNCHANGED <<disk, clock, cont, filename, todo, eventData, seen, norm, closed>>

Next ==
  \/ InitFileStates
  \/ \E p \in Paths, op \in OpMasks : HandleFileEvent(p, op)
  \/ WatcherError
  \/ ChannelClosed
  \/ Tick
  \/ SweepStep
  \/ SendAttempt
  \/ \E p \in Paths : \E c \in ContentsOf(p) : DiskCreate(p, c)
  \/ \E p \in Paths : \E c \in ContentsOf(p) : DiskWrite(p, c)
  \/ \E p \in Paths : DiskRemove(p)
  \/ DiskRemoveDir

Spec == Init /\ [][Next]_vars

(***************************************************************************)
(* The loop under its scheduling, for a tracked file that disappears       *)
(* without a Remove notification: notifications arrive for the other entry *)
(* only, which the game server keeps saving.  The select of main always    *)
(* proceeds (a notification or the timer of this iteration ends the wait), *)
(* the sweep and the delivery run to their ends.  The timer is made anew in every iteration (line     *)
(* 114), so it ends the wait only if nothing else does first: no fairness  *)
(* is due to Tick by itself.                                               *)
(***************************************************************************)
LiveInit ==
  /\ disk \in [Paths -> {File(0, c) : c \in Contents}]
  /\ \A p \in Paths : disk[p].content \in ContentsOf(p)
  /\ LoopInit
  /\ norm = NormIdle

SelectStep ==
  \/ HandleFileEvent(OtherPath, {"Create"})
  \/ HandleFileEvent(OtherPath, {"Write"})
  \/ Tick

LiveNext ==
  \/ InitFileStates
  \/ SelectStep
  \/ SweepStep
  \/ SendAttempt
  \/ DiskRemove(FirstPath)
  \/ \E c \in ContentsOf(OtherPath) : DiskWrite(OtherPath, c)

LiveFairness ==
  /\ WF_vars(InitFileStates)
  /\ WF_vars(SelectStep)
  /\ WF_vars(SweepStep)
  /\ WF_vars(SendAttempt)

LiveSpec == LiveInit /\ [][LiveNext]_vars /\ LiveFairness

(***************************************************************************)
(* The loop when the watcher is closed at some moment.  What was ready     *)
(* before the closure (a notification, an error) may still be taken by the *)
(* select; a closed channel is ready in every iteration and the select     *)
(* chooses among the ready cases at random, so its case is taken in the    *)
(* end: strong fairness of Return.                                         *)
(***************************************************************************)
StopNext ==
  \/ InitFileStates
  \/ \E op \in {{"Create"}, {"Write"}, {"Remove"}} : HandleFileEvent(FirstPath, op)
  \/ WatcherError
  \/ Tick
  \/ SweepStep
  \/ SendAttempt
  \/ DiskRemove(FirstPath)
  \/ \E c \in ContentsOf(FirstPath) : DiskWrite(FirstPath, c)
  \/ Close
  \/ Return

StopFairness ==
  /\ WF_vars(InitFileStates)
  /\ WF_vars(SweepStep)
  /\ WF_vars(SendAttempt)
  /\ SF_vars(Return)

StopSpec == LiveInit /\ [][StopNext]_vars /\ StopFairness

(***************************************************************************)
(* The loop with notifications of every operation mask for one file, which *)
(* the game server rewrites and removes.                                   *)
(***************************************************************************)
DispatchNext ==
  \/ InitFileStates
  \/ \E op \in OpMasks : HandleFileEvent(FirstPath, op)
  \/ Tick
  \/ SweepStep
  \/ SendAttempt
  \/ DiskRemove(FirstPath)
  \/ \E c \in ContentsOf(FirstPath) : DiskCreate(FirstPath, c)
  \/ \E c \in ContentsOf(FirstPath) : DiskWrite(FirstPath, c)

DispatchSpec == LiveInit /\ [][DispatchNext]_vars

(***************************************************************************)
(* The normalisation on its own: ensureValidData applied to every string   *)
(* of at most MaxLen characters, and applied again to its result.          *)
(***************************************************************************)
NormInit ==
  /\ disk = [p \in Paths |-> Absent]
  /\ LoopInit
  /\ norm \in {[stage |-> "input", data |-> s, once |-> <<>>, twice |-> <<>>] :
                 s \in SeqsUpTo(MaxLen)}

Normalize ==
  /\ norm.stage = "input"
  /\ norm' = [norm EXCEPT !.stage = "once", !.once = ensureValidData(norm.data)]
  /\ UNCHANGED <<disk, clock, fileStates, fileCache, pc, todo, callVars, lastAct, closed>>

NormalizeAgain ==
  /\ norm.stage = "once"
  /\ norm' = [norm EXCEPT !.stage = "twice", !.twice = ensureValidData(norm.once)]
  /\ UNCHANGED <<disk, clock, fileStates, fileCache, pc, todo, callVars, lastAct, closed>>

NormNext == Normalize \/ NormalizeAgain

NormSpec == NormInit /\ [][NormNext]_vars

(***************************************************************************)
(* The classification of sendEvent on its own: every status of Statuses    *)
(* with every body, and the transport error.                               *)
(***************************************************************************)
Statuses == {199, 200, 204, 299, 300, 404, 500}

ClassInit ==
  /\ disk = [p \in Paths |-> Absent]
  /\ LoopInit
  /\ norm \in {[stage |-> "request", err |-> TRUE, status |-> 0, body |-> {},
                 resp |-> NoResponse]}
               \cup {[stage |-> "request", err |-> FALSE, status |-> st, body |-> b,
                      resp |-> NoResponse] : st \in Statuses, b \in SUBSET Fragments}

Classify ==
  /\ norm.stage = "request"
  /\ norm' = [norm EXCEPT !.stage = "response",
                          !.resp = sendEvent(Received(norm.err, norm.status, norm.body))]
  /\ UNCHANGED <<disk, clock, fileStates, fileCache, pc, todo, callVars, lastAct, closed>>

ClassNext == Classify

ClassSpec == ClassInit /\ [][ClassNext]_vars

(***************************************************************************)
(* The identity extraction on its own: getSteamIDFromFilename applied to   *)
(* every path of at most MaxPathLen characters.                            *)
(***************************************************************************)
PathChar == {"7", ".", "/", BS}

RECURSIVE PathsUpTo(_)
PathsUpTo(n) ==
  IF n = 0 THEN {<<>>}
  ELSE LET shorter == PathsUpTo(n - 1)
       IN  shorter \cup {Append(s, c) : s \in {t \in shorter : Len(t) = n - 1}, c \in PathChar}

NameInit ==
  /\ disk = [p \in Paths |-> Absent]
  /\ LoopInit
  /\ norm \in {[stage |-> "path", path |-> s, id |-> <<>>] : s \in PathsUpTo(MaxPathLen)}

Extract ==
  /\ norm.stage = "path"
  /\ norm' = [norm EXCEPT !.stage = "id", !.id = getSteamIDFromFilename(norm.path)]
  /\ UNCHANGED <<disk, clock, fileStates, fileCache, pc, todo, callVars, lastAct, closed>>

NameNext == Extract

NameSpec == NameInit /\ [][NameNext]_vars

(***************************************************************************)
(* Vocabulary of the properties.                                           *)
(***************************************************************************)
WriteLabels == {"write_staterr", "write_unchanged", "write_readerr", "write_begin"}

Ended == {"sent", "html_abort", "exhausted"}

\* this step is an attempt of sendEventWithRetry
AttemptStep == pc = "send" /\ Len(responses') = Len(responses) + 1

\* Success and IsHTML of the attempt made in this step
Latest == responses'[Len(responses')]

\* this step is handleFileEvent dispatching a Write notification for p
WriteNotified(p) == pc = "select" /\ lastAct' \in WriteLabels /\ filename' = p

CreateLabels == {"create_readerr", "create_begin"}

\* this step is handleFileEvent dispatching a Create notification for p
CreateNotified(p) == pc = "select" /\ lastAct' \in CreateLabels /\ filename' = p

\* this step is handleFileEvent called with a notification for p
Notified(p) ==
  /\ pc = "select"
  /\ lastAct' \in {"ignored", "remove_begin"} \cup CreateLabels \cup WriteLabels
  /\ filename' = p

\* this step starts no delivery and leaves the two tables as they are
Nothing ==
  /\ pc' = "select"
  /\ result' = "none"
  /\ responses' = <<>>
  /\ fileStates' = fileStates
  /\ fileCache' = fileCache

\* the recorded time of p says nothing against a Write notification for p
Differs(p) == ~(p \in DOMAIN fileStates /\ fileStates[p] = ModTime(p))

\* the sequence <<1, ..., n>>
UpTo(n) == [i \in 1..n |-> i]

RECURSIVE IsSubsequence(_, _)
IsSubsequence(s, t) ==
  IF s = <<>> THEN TRUE
  ELSE IF t = <<>> THEN FALSE
  ELSE IF Head(s) = Head(t) THEN IsSubsequence(Tail(s), Tail(t))
  ELSE IsSubsequence(s, Tail(t))

(***************************************************************************)
(* C1.  Dedup: a Write notification for a path whose modification time on  *)
(* disk equals the time recorded in fileStates starts no delivery and      *)
(* leaves fileStates and fileCache as they are; and whenever a             *)
(* change-dino-data delivery is in progress, the modification time the     *)
(* handler saw was not the one recorded for the path.                      *)
(***************************************************************************)
ChangeOnlyWhenDiffers ==
  (pc = "send" /\ cont = "write") =>
     /\ eventData.Event = "change-dino-data"
     /\ ~(filename \in DOMAIN fileStates /\ fileStates[filename] = seen)

C1_Dedup ==
  [][ /\ \A p \in Paths :
           ( /\ WriteNotified(p)
             /\ StatOK(p)
             /\ p \in DOMAIN fileStates
             /\ ModTime(p) = fileStates[p] )
           => /\ pc' = "select"
              /\ result' = "none"
              /\ responses' = <<>>
              /\ fileStates' = fileStates
              /\ fileCache' = fileCache
      /\ ChangeOnlyWhenDiffers' ]_vars

C1_Witness ==
  /\ lastAct = "write_unchanged"
  /\ StatOK(filename)
  /\ filename \in DOMAIN fileCache
  /\ fileStates[filename] = ModTime(filename)
  /\ ModTime(filename) > 0

(***************************************************************************)
(* C2.  After a Create notification for a path has been processed and its  *)
(* add-dino-data event delivered, a Write notification for the same path   *)
(* that arrives while the file still has the modification time it had when *)
(* the create read it makes no delivery attempt.  (Stated for a file       *)
(* stamped while the program runs, and for the Write notification that     *)
(* comes next.)                                                            *)
(***************************************************************************)
C2_WriteAfterCreateSilent ==
  [][ ( /\ lastAct = "create"
        /\ result = "sent"
        /\ filename \in DOMAIN fileStates
        /\ StatOK(filename)
        /\ ModTime(filename) = seen
        /\ seen > 0
        /\ WriteNotified(filename) )
      => /\ pc' = "select"
         /\ result' = "none" ]_vars

(***************************************************************************)
(* C3.  The data of a delete-dino-data event is the normalised content     *)
(* cached for the path: cached content X that is valid JSON is sent as X,  *)
(* any cached X is, up to the white space around it, contained in the data *)
(* character by character in order, and a path without cache entry gives   *)
(* exactly {}.                                                             *)
(***************************************************************************)
C3_DeleteCarriesCache ==
  (pc = "send" /\ cont \in {"remove", "sweep"}) =>
     /\ eventData.Event = "delete-dino-data"
     /\ eventData.Type = "player"
     /\ eventData.SteamID64 = getSteamIDFromFilename(filename)
     /\ IF filename \in DOMAIN fileCache
        THEN /\ eventData.Data = ensureValidData(fileCache[filename])
             /\ IsSubsequence(TrimSpace(fileCache[filename]), eventData.Data)
             /\ IsValidJSON(fileCache[filename]) => eventData.Data = fileCache[filename]
        ELSE eventData.Data = EmptyObject

C3_Witness ==
  /\ pc = "send"
  /\ cont = "remove"
  /\ filename \in DOMAIN fileCache
  /\ fileCache[filename] = <<"n", DQ>>
  /\ eventData.Data = <<DQ, "n", BS, DQ, DQ>>

(***************************************************************************)
(* C4.  When a Remove has been processed, from a notification or from the  *)
(* sweep and whatever the delivery gave, the path is in neither fileStates *)
(* nor fileCache; and a path leaves fileStates or fileCache only in the    *)
(* step that ends the delivery of its delete-dino-data event.              *)
(***************************************************************************)
RemoveProcessed == lastAct \in {"remove", "sweep"} /\ result \in Ended

PurgedAfterRemove ==
  RemoveProcessed =>
     /\ filename \notin DOMAIN fileStates
     /\ filename \notin DOMAIN fileCache

C4_PurgeAfterDelivery ==
  [][ /\ PurgedAfterRemove'
      /\ \A p \in Paths :
           ( \/ (p \in DOMAIN fileStates /\ p \notin DOMAIN fileStates')
             \/ (p \in DOMAIN fileCache /\ p \notin DOMAIN fileCache') )
           => /\ pc = "send"
              /\ cont \in {"remove", "sweep"}
              /\ filename = p
              /\ eventData.Event = "delete-dino-data"
              /\ result = "pending"
              /\ result' \in Ended
              /\ pc' # "send" ]_vars

C4_Witness ==
  /\ lastAct = "sweep"
  /\ result = "exhausted"
  /\ Len(responses) = maxRetries
  /\ eventData.Data # EmptyObject
  /\ filename \notin DOMAIN fileStates
  /\ filename \notin DOMAIN fileCache

(***************************************************************************)
(* C5.  The result of ensureValidData parses as JSON, for every content.   *)
(***************************************************************************)
C5_NormalizedParses ==
  norm.stage \in {"once", "twice"} => IsValidJSON(norm.once)

(***************************************************************************)
(* C6.  ensureValidData is idempotent; blank content gives the empty       *)
(* object and valid JSON is returned unchanged.                            *)
(***************************************************************************)
C6_NormalizeIdempotent ==
  norm.stage = "twice" =>
     /\ norm.twice = norm.once
     /\ TrimSpace(norm.data) = <<>> => norm.once = EmptyObject
     /\ IsValidJSON(norm.data) => norm.once = norm.data

(***************************************************************************)
(* C7.  Retry: an attempt that succeeds ends the delivery as sent, with no *)
(* further attempt; an attempt that fails without the HTML flag, when      *)
(* fewer than maxRetries attempts were made, is followed by one sleep of   *)
(* the retry delay and the next attempt.  So a delivery that ends as sent  *)
(* after N failed attempts made exactly N+1 attempts, with one sleep after *)
(* each of the first N.                                                    *)
(***************************************************************************)
SentAfterRetries ==
  result = "sent" =>
     LET n == Len(responses) - 1
     IN  /\ n >= 0
         /\ n < maxRetries
         /\ \A i \in 1..n : ~responses[i].Success /\ ~responses[i].IsHTML
         /\ responses[n + 1].Success
         /\ apiResponse.Success
         /\ attempt = n + 1
         /\ sleeps = UpTo(n)
         /\ pc # "send"

C7_Retry ==
  [][ /\ AttemptStep =>
           /\ Latest.Success =>
                 /\ result' = "sent"
                 /\ pc' # "send"
                 /\ sleeps' = sleeps
           /\ (~Latest.Success /\ ~Latest.IsHTML /\ attempt < maxRetries) =>
                 /\ pc' = "send"
                 /\ result' = "pending"
                 /\ attempt' = attempt + 1
                 /\ sleeps' = Append(sleeps, attempt)
      /\ SentAfterRetries' ]_vars

C7_Witness ==
  /\ result = "sent"
  /\ Len(responses) = maxRetries
  /\ sleeps = <<1, 2>>

(***************************************************************************)
(* C8.  Authentication wall: an attempt whose response body carries an     *)
(* HTML or login-page marker is classified failed and HTML-flagged and     *)
(* ends the delivery: no sleep and no further attempt follow, and the loop *)
(* is back at its select (or in the rest of the sweep), not stopped.       *)
(***************************************************************************)
HTMLAbort ==
  (result \in Ended /\ apiResponse.Body = "html") =>
     /\ ~apiResponse.Success
     /\ apiResponse.IsHTML
     /\ result = "html_abort"
     /\ responses[Len(responses)].IsHTML
     /\ \A i \in 1..(Len(responses) - 1) : ~responses[i].IsHTML
     /\ Len(sleeps) = Len(responses) - 1
     /\ pc \in {"select", "sweep"}

C8_AuthenticationWall ==
  [][ /\ (AttemptStep /\ Latest.IsHTML) =>
           /\ ~Latest.Success
           /\ result' = "html_abort"
           /\ sleeps' = sleeps
           /\ pc' \in {"select", "sweep"}
      /\ (pc = "send" /\ \E i \in 1..Len(responses) : responses[i].IsHTML) => FALSE
      /\ HTMLAbort' ]_vars

C8_Witness ==
  /\ result = "html_abort"
  /\ Len(responses) = 1
  /\ apiResponse.StatusCode = 200
  /\ apiResponse.Body = "html"
  /\ pc = "select"

(***************************************************************************)
(* C9.  As claimed: a delivery whose attempts all fail with a transport    *)
(* error or an error status makes exactly maxRetries attempts before the   *)
(* event is dropped, whatever the bodies of the error responses.           *)
(***************************************************************************)
FailedWithErrors ==
  /\ result \in {"html_abort", "exhausted"}
  /\ apiResponse.Error = "transport" \/ apiResponse.StatusCode >= 400

C9_AlwaysMaxRetries ==
  FailedWithErrors => Len(responses) = maxRetries

(***************************************************************************)
(* C9, amended.  A delivery whose attempts all fail with a transport error *)
(* or an error status, none of the responses carrying an HTML or           *)
(* login-page marker, makes exactly maxRetries attempts, with a sleep      *)
(* after each but the last, and is then dropped; an error response that    *)
(* carries such a marker ends the delivery at that attempt.                *)
(***************************************************************************)
C9_MaxRetriesUnlessHTML ==
  FailedWithErrors =>
     IF apiResponse.IsHTML
     THEN /\ result = "html_abort"
          /\ Len(responses) <= maxRetries
          /\ Len(sleeps) = Len(responses) - 1
     ELSE /\ result = "exhausted"
          /\ Len(responses) = maxRetries
          /\ \A i \in 1..maxRetries : ~responses[i].Success /\ ~responses[i].IsHTML
          /\ sleeps = UpTo(maxRetries - 1)

C9_Witness ==
  /\ result = "exhausted"
  /\ apiResponse.StatusCode = 500
  /\ Len(responses) = maxRetries

(***************************************************************************)
(* C10.  sendEventWithRetry makes at least one and at most maxRetries      *)
(* attempts: every attempt either ends it or moves it to the next attempt, *)
(* and the attempt numbered maxRetries ends it.  When it ends, exhausted   *)
(* or not, the handler finishes its bookkeeping and the loop is back at    *)
(* its select or in the rest of the sweep; the loop stops only when a      *)
(* channel is closed.                                                      *)
(***************************************************************************)
AttemptsBounded ==
  /\ pc = "send" =>
        /\ attempt \in 1..maxRetries
        /\ Len(responses) = attempt - 1
        /\ result = "pending"
  /\ result \in Ended =>
        /\ Len(responses) \in 1..maxRetries
        /\ attempt = Len(responses)
        /\ pc \in {"select", "sweep"}
  /\ result = "exhausted" => Len(responses) = maxRetries

\* the handler of a dropped event has finished its bookkeeping: the same
\* Write notification again is a duplicate, the removed path is not swept
Dropped ==
  result = "exhausted" =>
     /\ (lastAct = "write" /\ StatOK(filename)) => WriteUnchanged(filename)
     /\ lastAct \in {"remove", "sweep"} => filename \notin DOMAIN fileStates
     /\ lastAct \in {"create", "write", "remove", "sweep"}

C10_DeliveryEnds ==
  [][ /\ AttemptsBounded'
      /\ Dropped'
      /\ AttemptStep =>
           \/ pc' = "send" /\ attempt' = attempt + 1 /\ attempt < maxRetries
           \/ pc' \in {"select", "sweep"} /\ result' \in Ended
      /\ (pc # "stopped" /\ pc' = "stopped") => (pc = "select" /\ lastAct' = "closed") ]_vars

C10_Witness ==
  /\ result = "exhausted"
  /\ apiResponse.Error = "transport"
  /\ Len(responses) = maxRetries
  /\ pc = "select"

(***************************************************************************)
(* C11.  Response classification: an attempt is successful exactly when a  *)
(* response was received, its status is in 200..299 and its body holds     *)
(* none of the markers; a transport error gives a failure with the HTML    *)
(* flag clear; a received response has the HTML flag set exactly when its  *)
(* body holds an HTML document marker or a login-page marker.              *)
(***************************************************************************)
HoldsMarker(body) ==
  \/ "<!DOCTYPE html>" \in body
  \/ "<html" \in body
  \/ "Steam" \in body
  \/ "Sign In" \in body

C11_Classification ==
  norm.stage = "response" =>
     /\ norm.resp.Success <=>
           (~norm.err /\ norm.status >= 200 /\ norm.status <= 299 /\ ~HoldsMarker(norm.body))
     /\ norm.err => (~norm.resp.Success /\ ~norm.resp.IsHTML)
     /\ ~norm.err => (norm.resp.IsHTML <=> HoldsMarker(norm.body))
     /\ ~norm.err => norm.resp.StatusCode = norm.status

C11_Witness ==
  /\ norm.stage = "response"
  /\ norm.status = 299
  /\ norm.body = {"ok", "Sign In"}
  /\ ~norm.resp.Success
  /\ norm.resp.IsHTML

(***************************************************************************)
(* C14.  getSteamIDFromFilename returns the base name of the path without  *)
(* its final extension (the part from the last dot on): a base name        *)
(* without dot is returned in full, and so is a base name whose only dot   *)
(* is its first character; the result is never empty.                      *)
(***************************************************************************)
Dots(b) == {i \in 1..Len(b) : b[i] = "."}

LastDot(b) == CHOOSE i \in Dots(b) : \A j \in Dots(b) : j <= i

C14_FinalExtensionRemoved ==
  norm.stage = "id" =>
     LET b == Base(norm.path)
     IN  /\ norm.id # <<>>
         /\ Dots(b) = {} => norm.id = b
         /\ (Dots(b) # {} /\ LastDot(b) = 1) => norm.id = b
         /\ (Dots(b) # {} /\ LastDot(b) > 1) => norm.id = SubSeq(b, 1, LastDot(b) - 1)

C14_Witness ==
  /\ norm.stage = "id"
  /\ norm.path = <<"/", ".", "7">>
  /\ norm.id = <<".", "7">>

(***************************************************************************)
(* C12.  Per-file I/O errors: a Create notification whose read fails, and  *)
(* a Write notification whose stat or read fails, start no delivery and    *)
(* leave fileStates and fileCache as they were.  After a failed read of a  *)
(* Write notification the recorded time still differs from the file's, so  *)
(* the next Write notification for the path is not taken for a duplicate.  *)
(***************************************************************************)
ErrorLabels == {"create_readerr", "write_staterr", "write_readerr"}

C12_ErrorsLeaveStateUnchanged ==
  [][ /\ (pc = "select" /\ lastAct' \in ErrorLabels) => Nothing
      /\ (lastAct = "write_readerr" /\ StatOK(filename)) => Differs(filename)
      /\ (lastAct = "write_readerr" /\ StatOK(filename) /\ WriteNotified(filename))
           => lastAct' \in {"write_begin", "write_readerr"}
      /\ (lastAct = "create_readerr" /\ CreateNotified(filename) /\ pc' = "send")
           => eventData'.Event = "add-dino-data" ]_vars

C12_Witness ==
  /\ lastAct = "write_readerr"
  /\ StatOK(filename)
  /\ filename \in DOMAIN fileCache
  /\ fileCache[filename] # disk[filename].content
  /\ fileStates[filename] # ModTime(filename)

(***************************************************************************)
(* C13.  A notification, of any kind, for a path that is a directory (one  *)
(* that is there, or one whose removal the notification reports) starts no *)
(* delivery and leaves fileStates and fileCache as they are.               *)
(***************************************************************************)
C13_DirectoryDiscarded ==
  [][ \A p \in Paths :
        (Notified(p) /\ disk[p].kind \in {"dir", "removed_dir"}) => Nothing ]_vars

(***************************************************************************)
(* C15.  Create transition: a Create notification whose read succeeds      *)
(* caches the content read and starts one delivery of an add-dino-data     *)
(* event of type player for the identifier of the path, with the           *)
(* normalised content as data; when the delivery ends, however it ends,    *)
(* the path is in fileStates and fileCache still holds that content.       *)
(***************************************************************************)
CreateDelivery ==
  (cont = "create" /\ (pc = "send" \/ result \in Ended)) =>
     /\ eventData.Event = "add-dino-data"
     /\ eventData.Type = "player"
     /\ eventData.SteamID64 = getSteamIDFromFilename(filename)
     /\ filename \in DOMAIN fileCache
     /\ eventData.Data = ensureValidData(fileCache[filename])
     /\ result \in Ended => filename \in DOMAIN fileStates

C15_CreateTransition ==
  [][ /\ \A p \in Paths :
           (CreateNotified(p) /\ lastAct' = "create_begin")
           => /\ disk[p].kind = "file"
              /\ pc' = "send"
              /\ cont' = "create"
              /\ attempt' = 1
              /\ responses' = <<>>
              /\ eventData'.Data = ensureValidData(disk[p].content)
              /\ fileCache' = MapPut(fileCache, p, disk[p].content)
              /\ fileStates' = fileStates
      /\ (pc = "send" /\ cont = "create") =>
           /\ filename' = filename
           /\ eventData' = eventData
           /\ fileCache' = fileCache
           /\ pc' = "send" => fileStates' = fileStates
           /\ pc' # "send" => DOMAIN fileStates' = DOMAIN fileStates \cup {filename}
      /\ CreateDelivery' ]_vars

C15_Witness ==
  /\ lastAct = "create"
  /\ result = "exhausted"
  /\ filename \in DOMAIN fileStates
  /\ fileCache[filename] = <<"n", DQ>>
  /\ eventData.Data = <<DQ, "n", BS, DQ, DQ>>

(***************************************************************************)
(* C16.  Periodic sweep: the tick takes the keys of fileStates; the sweep  *)
(* produces each of them once.  A key whose file is missing when it is     *)
(* produced starts one delivery of a delete-dino-data event for it, and    *)
(* when that delivery ends the key is purged from both tables; a key whose *)
(* file is there starts nothing and keeps its entries.  As long as the     *)
(* disk does not change, every tracked path missing from disk is still to  *)
(* be produced or is being delivered, so that a sweep that ends without    *)
(* disk change leaves no tracked path missing from disk.                   *)
(***************************************************************************)
InSweep == pc = "sweep" \/ (pc = "send" /\ cont = "sweep")

Covered ==
  InSweep =>
     \A p \in DOMAIN fileStates :
        ~StatOK(p) => (p \in todo \/ (pc = "send" /\ filename = p))

C16_Sweep ==
  [][ /\ (pc = "select" /\ lastAct' = "tick") =>
           /\ todo' = DOMAIN fileStates
           /\ fileStates' = fileStates
           /\ fileCache' = fileCache
           /\ Covered'
      /\ InSweep => todo' \subseteq todo
      /\ \A p \in Paths :
           (pc = "sweep" /\ p \in todo /\ p \notin todo') =>
              /\ todo' = todo \ {p}
              /\ fileStates' = fileStates
              /\ fileCache' = fileCache
              /\ IF StatOK(p)
                 THEN /\ pc' \in {"select", "sweep"}
                      /\ result' = "none"
                 ELSE /\ pc' = "send"
                      /\ cont' = "sweep"
                      /\ filename' = p
                      /\ attempt' = 1
                      /\ eventData'.Event = "delete-dino-data"
                      /\ eventData'.SteamID64 = getSteamIDFromFilename(p)
      /\ (pc = "send" /\ cont = "sweep" /\ pc' # "send") =>
           /\ fileStates' = MapDelete(fileStates, filename)
           /\ fileCache' = MapDelete(fileCache, filename)
           /\ pc' = IF todo = {} THEN "select" ELSE "sweep"
      /\ (Covered /\ disk' = disk) => Covered'
      /\ (InSweep /\ Covered /\ disk' = disk /\ pc' = "select") =>
           \A p \in DOMAIN fileStates' : StatOK(p) ]_vars

C16_Witness ==
  /\ lastAct = "sweep"
  /\ result = "sent"
  /\ pc = "select"
  /\ filename = FirstPath
  /\ DOMAIN fileStates = {OtherPath}
  /\ DOMAIN fileCache = {OtherPath}
  /\ StatOK(OtherPath)

(***************************************************************************)
(* C17.  Liveness of the sweep: a tracked file that is missing from disk,  *)
(* and for which no Remove notification arrives, is eventually purged from *)
(* fileStates, also when notifications for the other entry keep arriving.  *)
(***************************************************************************)
C17_SweepLiveness ==
  (FirstPath \in DOMAIN fileStates /\ ~StatOK(FirstPath))
     ~> (FirstPath \notin DOMAIN fileStates)

(***************************************************************************)
(* C18.  Write transition: a Write notification for a file whose           *)
(* modification time differs from the recorded one, or whose path is not   *)
(* tracked, and whose read succeeds, caches the content read and starts    *)
(* one delivery of a change-dino-data event with the normalised content;   *)
(* when the delivery ends, fileStates holds for the path the modification  *)
(* time the file has then (and is left as it is if the file is gone).      *)
(***************************************************************************)
WriteDelivery ==
  (cont = "write" /\ (pc = "send" \/ result \in Ended)) =>
     /\ eventData.Event = "change-dino-data"
     /\ eventData.Type = "player"
     /\ eventData.SteamID64 = getSteamIDFromFilename(filename)
     /\ filename \in DOMAIN fileCache
     /\ eventData.Data = ensureValidData(fileCache[filename])

C18_WriteTransition ==
  [][ /\ \A p \in Paths :
           /\ (WriteNotified(p) /\ disk[p].kind = "file" /\ Differs(p))
                => lastAct' \in {"write_begin", "write_readerr"}
           /\ (WriteNotified(p) /\ lastAct' = "write_begin")
                => /\ disk[p].kind = "file"
                   /\ Differs(p)
                   /\ pc' = "send"
                   /\ cont' = "write"
                   /\ attempt' = 1
                   /\ responses' = <<>>
                   /\ eventData'.Data = ensureValidData(disk[p].content)
                   /\ fileCache' = MapPut(fileCache, p, disk[p].content)
                   /\ fileStates' = fileStates
      /\ (pc = "send" /\ cont = "write") =>
           /\ filename' = filename
           /\ eventData' = eventData
           /\ fileCache' = fileCache
           /\ pc' = "send" => fileStates' = fileStates
           /\ pc' # "send" =>
                fileStates' = IF StatOK(filename)
                              THEN MapPut(fileStates, filename, ModTime(filename))
                              ELSE fileStates
      /\ WriteDelivery' ]_vars

C18_Witness ==
  /\ lastAct = "write"
  /\ result = "sent"
  /\ StatOK(filename)
  /\ fileStates[filename] = ModTime(filename)
  /\ ModTime(filename) # seen

(***************************************************************************)
(* C19.  As claimed: after initFileStates every entry of the watched       *)
(* directory that is no directory is tracked with its modification time,   *)
(* the cache holds the content of those that could be read, and a Write    *)
(* notification that comes next for one of them starts no delivery.        *)
(***************************************************************************)
Seeded ==
  /\ DOMAIN fileStates = {p \in Paths : disk[p].kind = "file"}
  /\ \A p \in DOMAIN fileStates : fileStates[p] = ModTime(p)
  /\ DOMAIN fileCache \subseteq DOMAIN fileStates
  /\ \A p \in DOMAIN fileCache : fileCache[p] = disk[p].content

C20_FailedEventDropped ==
  [][ /\ (pc = "send" /\ cont \in {"create", "write"} /\ pc' # "send") =>
           /\ fileCache' = fileCache
           /\ filename \in DOMAIN fileCache
           /\ StatOK(filename) => filename \in DOMAIN fileStates'
      /\ ( /\ lastAct \in {"create", "write"}
           /\ result \in {"exhausted", "html_abort"}
           /\ StatOK(filename)
           /\ ModTime(filename) = seen
           /\ seen > 0
           /\ WriteNotified(filename) )
         => Nothing ]_vars

(***************************************************************************)
(* C21.  The loop takes one item per iteration: a step from the select is  *)
(* one notification for one path, one watcher error, one tick or the       *)
(* return.  A watcher error starts no delivery and leaves fileStates and   *)
(* fileCache as they are.  The loop returns only from the select and only  *)
(* when a channel is closed; once a channel is closed the loop eventually  *)
(* returns, and after the return nothing is delivered or changed.          *)
(***************************************************************************)
ItemLabels ==
  {"ignored", "remove_begin", "watcher_error", "tick", "closed"}
    \cup CreateLabels \cup WriteLabels

\* this step is an iteration of the loop, beginning at its select
Iteration ==
  /\ pc = "select"
  /\ <<pc, lastAct, callVars, todo>>' # <<pc, lastAct, callVars, todo>>
  /\ disk' = disk
  /\ closed' = closed

OneItem ==
  /\ Iteration =>
       /\ lastAct' \in ItemLabels
       /\ (lastAct' \in {"watcher_error", "closed"}) => (filename' = NoPath)
       /\ (lastAct' = "tick") => (todo' = DOMAIN fileStates /\ result' = "none")
       /\ (pc' = "send") => (attempt' = 1 /\ filename' \in Paths)
  /\ (pc = "select" /\ lastAct' = "watcher_error") => Nothing
  /\ (pc # "stopped" /\ pc' = "stopped") =>
       /\ pc = "select"
       /\ closed'
       /\ result' = "none"
  /\ pc = "stopped" =>
       UNCHANGED <<pc, fileStates, fileCache, callVars, todo, closed>>

C21_LoopTerminates ==
  /\ [][OneItem]_vars
  /\ closed ~> (pc = "stopped")

C21_Witness ==
  /\ pc = "stopped"
  /\ closed
  /\ lastAct = "closed"
  /\ result = "none"
  /\ FirstPath \in DOMAIN fileStates
  /\ fileStates[FirstPath] = 2 * MaxClock

(***************************************************************************)
(* C22.  When handleFileWrite has reported a change and the time it        *)
(* recorded for the path is the modification time the file has, the        *)
(* content cached for the path is the content the file has.                *)
(***************************************************************************)
C22_CacheMatchesRecordedTime ==
  ( /\ lastAct = "write"
    /\ result \in Ended
    /\ StatOK(filename)
    /\ filename \in DOMAIN fileStates
    /\ fileStates[filename] = ModTime(filename) )
  => /\ filename \in DOMAIN fileCache
     /\ fileCache[filename] = disk[filename].content

(***************************************************************************)
(* C23.  Between the iterations of the loop every path that has an entry   *)
(* in fileCache has one in fileStates.                                     *)
(***************************************************************************)
C23_CachedIsTracked ==
  pc = "select" => DOMAIN fileCache \subseteq DOMAIN fileStates

(***************************************************************************)
(* C24.  When the sweep has reported the deletion of a path, the Remove    *)
(* notification for that path that comes next builds no event; and a       *)
(* delete-dino-data event is built only for a path that is tracked (the    *)
(* path is purged when the delivery of its event ends, so the event of one *)
(* deletion is built once, and never for a path that was never tracked).   *)
(***************************************************************************)
\* this step is handleFileEvent dispatching a Remove notification for p
RemoveNotified(p) == pc = "select" /\ lastAct' = "remove_begin" /\ filename' = p

SecondFindsNothing ==
  (lastAct = "sweep" /\ result \in Ended /\ ~StatOK(filename)) =>
     ~RemoveNotified(filename)

DeleteOnlyTracked ==
  (pc = "send" /\ eventData.Event = "delete-dino-data") =>
     filename \in DOMAIN fileStates

C24_DeleteOnce ==
  [][SecondFindsNothing /\ DeleteOnlyTracked']_vars

(***************************************************************************)
(* C25.  Dispatch: a notification for a path that is no directory is       *)
(* handled by the create handler if its operation holds Create, else by    *)
(* the write handler if it holds Write, else by the remove handler if it   *)
(* holds Remove; otherwise (rename only, chmod only) it starts no delivery *)
(* and leaves fileStates and fileCache as they are, so that a renamed-away *)
(* path stays tracked for the sweep to report.                             *)
(***************************************************************************)
Handled(op) ==
  IF "Create" \in op
  THEN /\ lastAct' \in CreateLabels
       /\ (pc' = "send") => (cont' = "create" /\ eventData'.Event = "add-dino-data")
  ELSE IF "Write" \in op
  THEN /\ lastAct' \in WriteLabels
       /\ (pc' = "send") => (cont' = "write" /\ eventData'.Event = "change-dino-data")
  ELSE IF "Remove" \in op
  THEN /\ lastAct' = "remove_begin"
       /\ pc' = "send"
       /\ cont' = "remove"
       /\ eventData'.Event = "delete-dino-data"
  ELSE /\ lastAct' = "ignored"
       /\ Nothing

C25_Dispatch ==
  [][ \A p \in Paths :
        (Notified(p) /\ ~(StatOK(p) /\ IsDir(p))) =>
           \A op \in OpMasks : HandleFileEvent(p, op) => Handled(op) ]_vars

C25_Witness ==
  /\ lastAct = "ignored"
  /\ pc = "select"
  /\ ~StatOK(filename)
  /\ filename \in DOMAIN fileStates
  /\ filename \in DOMAIN fileCache

(***************************************************************************)
(* C26.  The bootstrap scan makes no delivery attempt and builds no event; *)
(* a delivery of an add-dino-data event starts only in the step that       *)
(* handles a notification whose operation holds Create, for the path of    *)
(* that notification.                                                      *)
(***************************************************************************)
AddOnlyFromCreate ==
  (pc = "send" /\ eventData.Event = "add-dino-data") => cont = "create"

DeliveryOfAddStarts ==
  /\ pc # "send"
  /\ pc' = "send"
  /\ eventData'.Event = "add-dino-data"

C26_BootstrapSilent ==
  [][ /\ (pc = "boot") =>
           /\ pc' = "select"
           /\ result' = "none"
           /\ responses' = <<>>
           /\ eventData' = NoEvent
      /\ DeliveryOfAddStarts =>
           /\ pc = "select"
           /\ lastAct' = "create_begin"
           /\ \E op \in OpMasks : "Create" \in op /\ HandleFileEvent(filename', op)
      /\ AddOnlyFromCreate' ]_vars

C26_Witness ==
  /\ lastAct = "boot"
  /\ pc = "select"
  /\ result = "none"
  /\ eventData = NoEvent
  /\ DOMAIN fileStates = Paths
  /\ DOMAIN fileCache = {FirstPath}

====
